---- MODULE Spec2Model ----
(***************************************************************************)
(* Note storage of Scribe: the three interchangeable stores                *)
(*   SimpleDatabaseService  (one JSON array under one localStorage key),   *)
(*   FileSystemService      (one metadata file per note),                  *)
(*   DatabaseService        (SQLite rows, optional content encryption),    *)
(* and the EncryptionService codec used by DatabaseService.                *)
(*                                                                         *)
(* A behaviour is the life of one store object: `backend` says which of    *)
(* the three classes was constructed, and only that class's methods act.   *)
(* Every method call is one action.  `last` holds the call that was made   *)
(* last together with what it returned, `births` is the log of the         *)
(* createNote calls (history only: no method reads it).                    *)
(***************************************************************************)
EXTENDS Integers, Sequences, FiniteSets, TLC

\* ------------------------------------------------------------------ bounds
MaxClock == 2          \* readings of Date.now() explored: 1..MaxClock
MaxOps == 2            \* createNote/updateNote/deleteNote calls per behaviour
TicksPerSecond == 2    \* Date.now() readings per CURRENT_TIMESTAMP second

\* --------------------------------------------------------------- JS values
Undefined == "undefined"
Null == [null |-> TRUE]
NoFolder == 0          \* folder_id absent (undefined in JS, NULL in SQL)
Sentinel == "[Encrypted - Decryption Failed]"

\* no SimpleRichEditor is mounted
NoEditor == [mounted |-> FALSE]

\* data.k || dflt, and destructuring with a default, for an optional key
Get(data, k, dflt) == IF k \in DOMAIN data THEN data[k] ELSE dflt

\* { ...a, ...b }
Spread(a, b) ==
  [k \in DOMAIN a \cup DOMAIN b |-> IF k \in DOMAIN b THEN b[k] ELSE a[k]]

\* ------------------------------------------------------------ input domains
Contents == {"secret", "memo"}      \* plaintexts; none contains ':'
Keys == {"k1", "w57"}               \* passwords given to setEncryptionKey
IVs == {"0a0a"}                     \* stands for randomBytes(16) in hex

WelcomeData ==
  [title |-> "Welcome to Scribe", content |-> "Start writing your first note here...",
   tags |-> <<"welcome">>, pinned |-> TRUE]

FsWelcomeData ==
  [title |-> "Welcome to Scribe", content |-> "# Welcome to Scribe",
   tags |-> <<"welcome">>, pinned |-> TRUE]

CreateInputs ==
  {[title |-> "t1", content |-> "secret"],
   [title |-> "t1", content |-> "secret", encrypted |-> TRUE],
   [title |-> "t2", content |-> "memo", tags |-> <<"a">>, pinned |-> TRUE,
    folder_id |-> 1, encrypted |-> TRUE]}

UpdateFields ==
  {[pinned |-> TRUE],
   [tags |-> <<"a", "b">>],
   [content |-> "memo"],
   [encrypted |-> TRUE],
   [encrypted |-> FALSE],
   [content |-> "secret", encrypted |-> TRUE],
   [title |-> "t2", content |-> "memo", tags |-> <<"b">>, pinned |-> FALSE]}

UpdateInputs(id) == {Spread([id |-> id], f) : f \in UpdateFields}

Filters == {[none |-> TRUE], [pinned |-> TRUE]}

\* inputs of the listing behaviours: tagged, pinned and filed notes
NoFilters == [none |-> TRUE]        \* getNotes() and getNotes({})
FolderIds == {1}                    \* the default folder 'General'
TagNames == {"a"}                   \* names given to createTag

TaggedInputs ==
  {[title |-> "t1", content |-> "secret", tags |-> <<"a">>, encrypted |-> TRUE],
   [title |-> "t2", content |-> "memo", tags |-> <<"b">>, folder_id |-> 1],
   [title |-> "t1", content |-> "memo", tags |-> <<"a", "b", "a">>, pinned |-> TRUE]}

RetagFields == {[tags |-> <<"b">>, pinned |-> TRUE]}

RetagInputs(id) == {Spread([id |-> id], f) : f \in RetagFields}

ListingFilters ==
  {NoFilters,
   [pinned |-> TRUE],
   [tags |-> <<"a", "b">>],
   [tags |-> <<"a", "b">>, pinned |-> TRUE],
   [tags |-> <<"A">>],
   [query |-> "SEC"],
   [folder_id |-> 1]}

\* --------------------------------------------------------- EncryptionService
\* createCipher('aes-256-cbc', key): the cipher key and IV are both derived
\* from the password (MD5, no salt), so the block below is a function of
\* (text, key) alone.  The values are the outputs of AES-256-CBC on the
\* strings of Contents under the passwords of Keys and under the empty
\* password, which the key derivation accepts like any other.
AesCbc(text, key) ==
  CASE text = "secret" /\ key = "k1"  -> "35b130afa0aa4439736bbbabaf52986f"
    [] text = "secret" /\ key = "w57" -> "8a663b423457cebbb31d99795bd451e7"
    [] text = "memo"   /\ key = "k1"  -> "160ea635b473ccec5a9e36c0b775d8dd"
    [] text = "memo"   /\ key = "w57" -> "db5c1167aa7ba5f8a9725ee7dff62529"
    [] text = "secret" /\ key = ""    -> "f838145b6b10048cd03e587d48d68ebb"
    [] text = "memo"   /\ key = ""    -> "5bb008c7a9a3484c87d25e0bbeb2feee"

HexBlocks == {AesCbc(t, k) : t \in Contents, k \in Keys}

\* the key arguments and IV draws of direct calls of the static methods
CodecKeys == Keys \cup {""}
CodecIVs == IVs \cup {"1b1b", "2c2c", "3d3d", "4e4e"}
CodecBlocks == {AesCbc(t, k) : t \in Contents, k \in CodecKeys}

\* what decipher.final('utf8') yields when the PKCS#7 padding happens to
\* validate under a password other than the encrypting one: the 15 bytes
\* 50b8 2cf9 1124 2ab2 ad31 52fc 1f5d 53 decoded leniently as UTF-8
Garbled == "P\\ufffd,\\ufffd\\x11$*\\ufffd\\ufffd1R\\ufffd\\x1f]S"

Thrown == [ok |-> FALSE, text |-> ""]
Returned(s) == [ok |-> TRUE, text |-> s]

\* createDecipher(alg, key); decipher.update(hex) + decipher.final():
\* the plaintext under the encrypting password; under another password
\* final() throws 'bad decrypt' unless the last block decrypts to valid
\* padding, which of the 8 wrong-password pairs of this domain happens for
\* ("secret" under "k1", read with "w57").
AesCbcDecrypt(hex, key) ==
  IF \E t \in Contents : hex = AesCbc(t, key)
    THEN Returned(CHOOSE t \in Contents : hex = AesCbc(t, key))
  ELSE IF hex = AesCbc("secret", "k1") /\ key = "w57"
    THEN Returned(Garbled)
  ELSE Thrown

\* EncryptionService.encrypt: iv.toString('hex') + ':' + encrypted
encrypt(text, key, iv) == iv \o ":" \o AesCbc(text, key)

CipherTexts == {encrypt(t, k, iv) : t \in Contents, k \in Keys, iv \in IVs}

\* encryptedText.split(':') on the strings of the model
Split(s) ==
  IF \E iv \in CodecIVs, h \in CodecBlocks : s = iv \o ":" \o h
    THEN LET p == CHOOSE p \in CodecIVs \X CodecBlocks : s = p[1] \o ":" \o p[2]
         IN  <<p[1], p[2]>>
    ELSE <<s>>

\* EncryptionService.decrypt: any error inside is rethrown
decrypt(encryptedText, key) ==
  LET parts == Split(encryptedText)
  IN  IF Len(parts) # 2 THEN Thrown ELSE AesCbcDecrypt(parts[2], key)

\* ------------------------------------------------------------------- state
VARIABLES
  backend,        \* "simple" | "fs" | "db": the class that was constructed
  clock,          \* current reading of Date.now()
  ops,            \* mutating calls made so far
  simple,         \* localStorage['scribe-notes'] parsed: Note[]
  fsMeta,         \* notes/<id>.meta.json files: id -> Note
  fsDocs,         \* notes/<title>.md files: file name -> rendered note
  dbRows,         \* table notes: id -> row
  dbFolders,      \* table folders: the ids present
  dbTags,         \* table tags: id -> row
  dbSeq,          \* AUTOINCREMENT high-water mark of table notes
  encryptionKey,  \* DatabaseService.encryptionKey
  availableFolders, \* App state: the ids of the folders listed
  editor,         \* SimpleRichEditor: note prop, title, content, isEditing, timer
  inflight,       \* FileSystemService.updateNote calls started and not awaited
  fsFolders,      \* folders/<id>.json files: id -> Folder
  births,         \* log of createNote calls: [note, key]
  touched,        \* <<uid, key>>: a later updateNote supplied key, or "deleted"
  last            \* the last call and its result

vars == <<backend, clock, ops, simple, fsMeta, fsDocs, dbRows, dbFolders, dbTags,
          dbSeq, encryptionKey, availableFolders, editor, inflight, fsFolders,
          births, touched, last>>

simpleVars == <<simple>>
fsVars == <<fsMeta, fsDocs>>
dbVars == <<dbRows, dbFolders, dbTags, dbSeq, encryptionKey>>
appVars == <<availableFolders, editor, inflight, fsFolders>>

\* new Date().toISOString(): millisecond resolution
Now == clock

\* SQLite CURRENT_TIMESTAMP: second resolution
CurrentTimestamp == clock \div TicksPerSecond

\* ------------------------------------------------------ query helpers (JS)
\* String.prototype.toLowerCase on the strings of the model
ToLowerCase(s) ==
  CASE s = "SEC" -> "sec"
    [] s = "A" -> "a"
    [] s = "Welcome to Scribe" -> "welcome to scribe"
    [] s = "Start writing your first note here..." -> "start writing your first note here..."
    [] s = "# Welcome to Scribe" -> "# welcome to scribe"
    [] OTHER -> s

\* String.prototype.includes on the (lower-cased) strings of the model
Includes(hay, needle) ==
  \/ hay = needle
  \/ needle = ""
  \/ <<hay, needle>> \in {<<"secret", "sec">>}

\* Array.prototype.includes / some over a tag list
HasTag(tags, tag) == \E i \in DOMAIN tags : tags[i] = tag

\* a comparator that looks at updated_at alone
CompareNotesByDate(a, b) == b.updated_at - a.updated_at

\* the comparator of notes.sort: pinned first, then updated_at descending
CompareNotes(a, b) ==
  IF a.pinned /\ ~b.pinned THEN -1
  ELSE IF ~a.pinned /\ b.pinned THEN 1
  ELSE b.updated_at - a.updated_at

\* Array.prototype.sort is stable: x goes behind the elements it ties with
RECURSIVE InsertNote(_, _)
InsertNote(x, s) ==
  IF s = <<>> THEN <<x>>
  ELSE IF CompareNotes(x, Head(s)) < 0 THEN <<x>> \o s
  ELSE <<Head(s)>> \o InsertNote(x, Tail(s))

RECURSIVE SortNotes(_)
SortNotes(s) ==
  IF s = <<>> THEN <<>>
  ELSE InsertNote(s[Len(s)], SortNotes(SubSeq(s, 1, Len(s) - 1)))

\* the three filter steps shared by SimpleDatabaseService.getNotes and
\* FileSystemService.getNotes
MatchesQuery(note, filters) ==
  Get(filters, "query", "") # "" =>
    LET query == ToLowerCase(filters.query)
    IN  \/ Includes(ToLowerCase(note.title), query)
        \/ Includes(ToLowerCase(note.content), query)

MatchesPinned(note, filters) ==
  "pinned" \in DOMAIN filters => note.pinned = filters.pinned

MatchesTags(note, filters) ==
  Len(Get(filters, "tags", <<>>)) > 0 =>
    \E i \in DOMAIN filters.tags : HasTag(note.tags, filters.tags[i])

FilterAndSort(notes, filters) ==
  LET Keep(n) == MatchesQuery(n, filters) /\ MatchesPinned(n, filters)
                 /\ MatchesTags(n, filters)
  IN  SortNotes(SelectSeq(notes, Keep))

\* ----------------------------------------------- history (not program state)
\* one entry per createNote call: what was passed and what was assigned
Born(note, content, key) ==
  [uid |-> note.uid, id |-> note.id, created_at |-> note.created_at,
   content |-> content, encrypted |-> note.encrypted, key |-> key]

\* the keys an updateNote argument supplies for the note uid
Supplying(uid, data) == {<<uid, k>> : k \in DOMAIN data \ {"id"}}

Call(op, arg, res) == [op |-> op, arg |-> arg, res |-> res, threw |-> FALSE]
Throw(op, arg) == [op |-> op, arg |-> arg, res |-> Null, threw |-> TRUE]

\* ------------------------------------------------------- malformed records
\* a stored record whose text no longer parses as JSON (the fields of n are
\* kept for the history only: no method can read them)
Damaged(n) == Spread(n, [malformed |-> TRUE])
IsMalformed(n) == "malformed" \in DOMAIN n

\* SimpleDatabaseService.getNotesFromStorage: JSON.parse of the one string
\* that holds the whole array; [] when it throws
getNotesFromStorage(stored) ==
  IF \E i \in DOMAIN stored : IsMalformed(stored[i]) THEN <<>> ELSE stored

\* ---------------------------------------------------- SimpleDatabaseService
\* Array.prototype.find / findIndex by id: 0 when no element matches
FindIndex(notes, id) ==
  IF \E i \in DOMAIN notes : notes[i].id = id
    THEN CHOOSE i \in DOMAIN notes :
           notes[i].id = id /\ \A j \in 1..(i - 1) : notes[j].id # id
    ELSE 0

\* the object literal of createNote (the same in FileSystemService)
NewNote(data) ==
  [id |-> clock,
   title |-> data.title,
   content |-> data.content,
   tags |-> Get(data, "tags", <<>>),
   pinned |-> Get(data, "pinned", FALSE),
   created_at |-> Now,
   updated_at |-> Now,
   folder_id |-> Get(data, "folder_id", NoFolder),
   encrypted |-> Get(data, "encrypted", FALSE),
   uid |-> Len(births) + 1]

\* a merge that stamps both timestamps
UpdatedNoteRestamped(note, data) ==
  [Spread(note, data) EXCEPT !.updated_at = Now, !.created_at = Now]

\* { ...note, ...data, updated_at: new Date().toISOString() }
UpdatedNote(note, data) ==
  [Spread(note, data) EXCEPT !.updated_at = Now]

SimpleCreateNote(data) ==
  /\ backend = "simple"
  /\ ops < MaxOps
  /\ LET newNote == NewNote(data)
     IN  /\ simple' = <<newNote>> \o getNotesFromStorage(simple)
         /\ births' = Append(births, Born(newNote, data.content, Undefined))
         /\ last' = Call("createNote", data, newNote)
  /\ ops' = ops + 1
  /\ UNCHANGED <<backend, appVars, clock, fsVars, dbVars, touched>>

\* a lookup that also resolves the note's folder among the listed ones
SimpleFindInFolder(id) ==
  LET notes == getNotesFromStorage(simple)
      i == FindIndex(notes, id)
  IN  IF i = 0 \/ notes[i].folder_id \notin availableFolders \cup {NoFolder}
        THEN Null
        ELSE notes[i]

SimpleFind(id) ==
  LET notes == getNotesFromStorage(simple)
      i == FindIndex(notes, id)
  IN  IF i = 0 THEN Null ELSE notes[i]

SimpleGetNoteById(id) ==
  /\ backend = "simple"
  /\ last' = Call("getNoteById", id, SimpleFind(id))
  /\ UNCHANGED <<backend, appVars, clock, ops, simpleVars, fsVars, dbVars, births, touched>>

SimpleGetNotes(filters) ==
  /\ backend = "simple"
  /\ last' = Call("getNotes", filters, FilterAndSort(getNotesFromStorage(simple), filters))
  /\ UNCHANGED <<backend, appVars, clock, ops, simpleVars, fsVars, dbVars, births, touched>>

SimpleUpdateNote(data) ==
  /\ backend = "simple"
  /\ ops < MaxOps
  /\ LET notes == getNotesFromStorage(simple)
         noteIndex == FindIndex(notes, data.id)
     IN  IF noteIndex = 0
           THEN /\ last' = Call("updateNote", data, Null)
                /\ UNCHANGED <<simple, touched>>
           ELSE LET updatedNote == UpdatedNote(notes[noteIndex], data)
                IN  /\ simple' = [notes EXCEPT ![noteIndex] = updatedNote]
                    /\ touched' = touched \cup Supplying(notes[noteIndex].uid, data)
                    /\ last' = Call("updateNote", data, updatedNote)
  /\ ops' = ops + 1
  /\ UNCHANGED <<backend, appVars, clock, fsVars, dbVars, births>>

\* a filter that keeps only the later ids
SimpleWithoutUpTo(notes, id) ==
  LET Keep(n) == n.id > id IN SelectSeq(notes, Keep)

\* notes.filter(note => note.id !== id)
SimpleWithout(notes, id) ==
  LET Keep(n) == n.id # id IN SelectSeq(notes, Keep)

SimpleDeleteNote(id) ==
  /\ backend = "simple"
  /\ ops < MaxOps
  /\ LET notes == getNotesFromStorage(simple)
         filteredNotes == SimpleWithout(notes, id)
     IN  IF Len(filteredNotes) = Len(notes)
           THEN /\ last' = Call("deleteNote", id, FALSE)
                /\ UNCHANGED <<simple, touched>>
           ELSE /\ simple' = filteredNotes
                /\ touched' = touched \cup
                     {<<notes[i].uid, "deleted">> :
                        i \in {j \in DOMAIN notes : notes[j].id = id}}
                /\ last' = Call("deleteNote", id, TRUE)
  /\ ops' = ops + 1
  /\ UNCHANGED <<backend, appVars, clock, fsVars, dbVars, births>>

\* -------------------------------------------------------- FileSystemService
\* writeFile / deleteFile on the localStorage-backed file map
WriteFile(files, path, content) ==
  [p \in DOMAIN files \cup {path} |-> IF p = path THEN content ELSE files[p]]

DeleteFile(files, path) == [p \in DOMAIN files \ {path} |-> files[p]]

\* title.replace(/[^a-zA-Z0-9\s-]/g, '').replace(/\s+/g, '-') + '.' + format
generateFileName(title, format) ==
  (CASE title = "Welcome to Scribe" -> "Welcome-to-Scribe"
     [] OTHER -> title) \o "." \o format

\* the text written to the .md file, as the values it is built from
createMarkdownContent(note) ==
  [title |-> note.title, content |-> note.content, created |-> note.created_at,
   updated |-> note.updated_at, tags |-> note.tags, pinned |-> note.pinned]

\* readFile of notes/<id>.meta.json, '' when absent, then JSON.parse; null
\* when the file is absent or JSON.parse throws
FsFind(id) ==
  IF id \in DOMAIN fsMeta /\ ~IsMalformed(fsMeta[id]) THEN fsMeta[id] ELSE Null

\* listFiles + readFile + JSON.parse of every *.meta.json, in key order; a
\* file JSON.parse throws on is skipped
RECURSIVE FsListFrom(_)
FsListFrom(ids) ==
  IF ids = {} THEN <<>>
  ELSE LET least == CHOOSE i \in ids : \A j \in ids : i <= j
       IN  (IF IsMalformed(fsMeta[least]) THEN <<>> ELSE <<fsMeta[least]>>)
             \o FsListFrom(ids \ {least})

FsCreateNote(data) ==
  /\ backend = "fs"
  /\ ops < MaxOps
  /\ LET note == NewNote(data)
     IN  /\ fsDocs' = WriteFile(fsDocs, generateFileName(note.title, "md"),
                                createMarkdownContent(note))
         /\ fsMeta' = WriteFile(fsMeta, note.id, note)
         /\ births' = Append(births, Born(note, data.content, Undefined))
         /\ last' = Call("createNote", data, note)
  /\ ops' = ops + 1
  /\ UNCHANGED <<backend, appVars, clock, simpleVars, dbVars, touched>>

FsGetNoteById(id) ==
  /\ backend = "fs"
  /\ last' = Call("getNoteById", id, FsFind(id))
  /\ UNCHANGED <<backend, appVars, clock, ops, simpleVars, fsVars, dbVars, births, touched>>

FsGetNotes(filters) ==
  /\ backend = "fs"
  /\ last' = Call("getNotes", filters,
                  FilterAndSort(FsListFrom(DOMAIN fsMeta), filters))
  /\ UNCHANGED <<backend, appVars, clock, ops, simpleVars, fsVars, dbVars, births, touched>>

FsUpdateNote(data) ==
  /\ backend = "fs"
  /\ ops < MaxOps
  /\ LET existingNote == FsFind(data.id)
     IN  IF existingNote = Null
           THEN /\ last' = Call("updateNote", data, Null)
                /\ UNCHANGED <<fsMeta, fsDocs, touched>>
           ELSE LET updatedNote == UpdatedNote(existingNote, data)
                IN  IF updatedNote.title = Undefined
                      \* generateFileName: undefined.replace throws a TypeError
                      THEN /\ last' = Throw("updateNote", data)
                           /\ UNCHANGED <<fsMeta, fsDocs, touched>>
                      ELSE /\ fsDocs' = WriteFile(fsDocs,
                                                  generateFileName(updatedNote.title, "md"),
                                                  createMarkdownContent(updatedNote))
                           /\ fsMeta' = WriteFile(fsMeta, updatedNote.id, updatedNote)
                           /\ touched' = touched \cup Supplying(existingNote.uid, data)
                           /\ last' = Call("updateNote", data, updatedNote)
  /\ ops' = ops + 1
  /\ UNCHANGED <<backend, appVars, clock, simpleVars, dbVars, births>>

FsDeleteNote(id) ==
  /\ backend = "fs"
  /\ ops < MaxOps
  /\ LET note == FsFind(id)
     IN  IF note = Null
           THEN /\ last' = Call("deleteNote", id, FALSE)
                /\ UNCHANGED <<fsMeta, fsDocs, touched>>
           ELSE /\ fsDocs' = DeleteFile(fsDocs, generateFileName(note.title, "md"))
                /\ fsMeta' = DeleteFile(fsMeta, id)
                /\ touched' = touched \cup {<<note.uid, "deleted">>}
                /\ last' = Call("deleteNote", id, TRUE)
  /\ ops' = ops + 1
  /\ UNCHANGED <<backend, appVars, clock, simpleVars, dbVars, births>>

\* ---------------------------------------------------------- DatabaseService
\* JS truthiness of this.encryptionKey (undefined and '' are falsy)
KeySet(key) == key # Undefined /\ key # ""

\* Boolean(row.pinned), Boolean(row.encrypted) and the bound value of a boolean
Boolean(n) == n # 0
SqlBool(b) == IF b THEN 1 ELSE 0

\* createNote: finalContent
DbCreateContent(data, key, iv) ==
  IF Get(data, "encrypted", FALSE) /\ KeySet(key)
    THEN encrypt(data.content, key, iv)
    ELSE data.content

\* a mapping that hands the stored content through
DbNoteOfRowRaw(row, key) ==
  [id |-> row.id,
   title |-> row.title,
   content |-> row.content,
   tags |-> row.tags,
   pinned |-> Boolean(row.pinned),
   created_at |-> row.created_at,
   updated_at |-> row.updated_at,
   folder_id |-> row.folder_id,
   encrypted |-> Boolean(row.encrypted),
   uid |-> row.uid]

\* getNoteById / getNotes: row -> Note, decrypting the content
DbNoteOfRow(row, key) ==
  LET plain == decrypt(row.content, key)
      content == IF Boolean(row.encrypted) /\ KeySet(key)
                   THEN IF plain.ok THEN plain.text ELSE Sentinel
                   ELSE row.content
  IN  [id |-> row.id,
       title |-> row.title,
       content |-> content,
       tags |-> row.tags,
       pinned |-> Boolean(row.pinned),
       created_at |-> row.created_at,
       updated_at |-> row.updated_at,
       folder_id |-> row.folder_id,
       encrypted |-> Boolean(row.encrypted),
       uid |-> row.uid]

\* SELECT * FROM notes WHERE id = ?, then the mapping above
DbFind(rows, id, key) ==
  IF id \in DOMAIN rows THEN DbNoteOfRow(rows[id], key) ELSE Null

\* FOREIGN KEY (folder_id) REFERENCES folders(id), foreign_keys = ON
ForeignKeyOk(folder_id) == folder_id = NoFolder \/ folder_id \in dbFolders

DbNewRow(data, iv) ==
  [id |-> dbSeq + 1,
   title |-> data.title,
   content |-> DbCreateContent(data, encryptionKey, iv),
   tags |-> Get(data, "tags", <<>>),
   pinned |-> SqlBool(Get(data, "pinned", FALSE)),
   folder_id |-> Get(data, "folder_id", NoFolder),
   encrypted |-> SqlBool(Get(data, "encrypted", FALSE)),
   created_at |-> CurrentTimestamp,
   updated_at |-> CurrentTimestamp,
   uid |-> Len(births) + 1]

DbSetEncryptionKey(key) ==
  /\ backend = "db"
  /\ encryptionKey' = key
  /\ last' = Call("setEncryptionKey", key, Null)
  /\ UNCHANGED <<backend, appVars, clock, ops, simpleVars, fsVars, dbRows, dbFolders,
                 dbTags, dbSeq, births, touched>>

\* new DatabaseService(path) on the database file of an earlier session
DbReopen ==
  /\ backend = "db"
  /\ encryptionKey # Undefined
  /\ encryptionKey' = Undefined
  /\ last' = Call("new", Null, Null)
  /\ UNCHANGED <<backend, appVars, clock, ops, simpleVars, fsVars, dbRows, dbFolders,
                 dbTags, dbSeq, births, touched>>

DbCreateNote(data, iv) ==
  /\ backend = "db"
  /\ ops < MaxOps
  /\ IF ~ForeignKeyOk(Get(data, "folder_id", NoFolder))
       THEN /\ last' = Throw("createNote", data)
            /\ UNCHANGED <<dbRows, dbSeq, births>>
       ELSE LET row == DbNewRow(data, iv)
                rows == WriteFile(dbRows, row.id, row)
            IN  /\ dbRows' = rows
                /\ dbSeq' = row.id
                /\ births' = Append(births,
                                    Born([row EXCEPT !.encrypted = Boolean(@)],
                                         data.content, encryptionKey))
                /\ last' = Call("createNote", data,
                                DbFind(rows, row.id, encryptionKey))
  /\ ops' = ops + 1
  /\ UNCHANGED <<backend, appVars, clock, simpleVars, fsVars, dbFolders, dbTags,
                 encryptionKey, touched>>

\* JSON.parse(row.tags || '[]') returns (it throws on a tags text that is
\* no JSON)
TagsParse(row) == ~IsMalformed(row)

DbGetNoteById(id) ==
  /\ backend = "db"
  /\ last' = IF id \in DOMAIN dbRows /\ ~TagsParse(dbRows[id])
               THEN Throw("getNoteById", id)
               ELSE Call("getNoteById", id, DbFind(dbRows, id, encryptionKey))
  /\ UNCHANGED <<backend, appVars, clock, ops, simpleVars, fsVars, dbVars, births, touched>>

\* x LIKE '%q%': substring match, case-insensitive on ASCII
Like(x, q) == Includes(ToLowerCase(x), ToLowerCase(q))

\* the WHERE clause built by getNotes, on the stored row
DbWhere(row, filters) ==
  /\ Get(filters, "query", "") # "" =>
       Like(row.title, filters.query) \/ Like(row.content, filters.query)
  /\ "pinned" \in DOMAIN filters => row.pinned = SqlBool(filters.pinned)
  /\ Get(filters, "folder_id", 0) # 0 => row.folder_id = filters.folder_id
  /\ Len(Get(filters, "tags", <<>>)) > 0 =>
       \E i \in DOMAIN filters.tags : \E j \in DOMAIN row.tags :
         ToLowerCase(row.tags[j]) = ToLowerCase(filters.tags[i])

\* ORDER BY pinned DESC, updated_at DESC
DbCompare(a, b) ==
  IF a.pinned # b.pinned THEN b.pinned - a.pinned ELSE b.updated_at - a.updated_at

RECURSIVE DbInsert(_, _)
DbInsert(x, s) ==
  IF s = <<>> THEN <<x>>
  ELSE IF DbCompare(x, Head(s)) < 0 THEN <<x>> \o s
  ELSE <<Head(s)>> \o DbInsert(x, Tail(s))

\* the matching rows in ORDER BY order (ties in rowid order)
RECURSIVE DbSelect(_, _)
DbSelect(ids, filters) ==
  IF ids = {} THEN <<>>
  ELSE LET greatest == CHOOSE i \in ids : \A j \in ids : j <= i
           rest == DbSelect(ids \ {greatest}, filters)
       IN  IF DbWhere(dbRows[greatest], filters)
             THEN DbInsert(dbRows[greatest], rest)
             ELSE rest

DbGetNotes(filters) ==
  /\ backend = "db"
  /\ LET rows == DbSelect(DOMAIN dbRows, filters)
     IN  last' = IF \E i \in DOMAIN rows : ~TagsParse(rows[i])
                   THEN Throw("getNotes", filters)
                   ELSE Call("getNotes", filters,
                             [i \in DOMAIN rows |-> DbNoteOfRow(rows[i], encryptionKey)])
  /\ UNCHANGED <<backend, appVars, clock, ops, simpleVars, fsVars, dbVars, births, touched>>

\* updateNote: the content bound to 'content = ?'
DbUpdateContent(data, key, iv) ==
  IF Get(data, "encrypted", FALSE) /\ KeySet(key)
    THEN encrypt(data.content, key, iv)
    ELSE data.content

\* UPDATE notes SET <supplied fields>, updated_at = CURRENT_TIMESTAMP
DbUpdatedRow(row, data, key, iv) ==
  [row EXCEPT
     !.title = IF "title" \in DOMAIN data /\ data.title # Undefined
                 THEN data.title ELSE @,
     !.content = IF "content" \in DOMAIN data /\ data.content # Undefined
                   THEN DbUpdateContent(data, key, iv) ELSE @,
     !.tags = IF "tags" \in DOMAIN data THEN data.tags ELSE @,
     !.pinned = IF "pinned" \in DOMAIN data THEN SqlBool(data.pinned) ELSE @,
     !.folder_id = IF "folder_id" \in DOMAIN data THEN data.folder_id ELSE @,
     !.encrypted = IF "encrypted" \in DOMAIN data THEN SqlBool(data.encrypted) ELSE @,
     !.updated_at = CurrentTimestamp]

DbUpdateNote(data, iv) ==
  /\ backend = "db"
  /\ ops < MaxOps
  /\ IF DbFind(dbRows, data.id, encryptionKey) = Null
       THEN /\ last' = Call("updateNote", data, Null)
            /\ UNCHANGED <<dbRows, touched>>
       ELSE IF ~TagsParse(dbRows[data.id]) \/ ~ForeignKeyOk(Get(data, "folder_id", NoFolder))
         THEN /\ last' = Throw("updateNote", data)
              /\ UNCHANGED <<dbRows, touched>>
         ELSE LET rows == [dbRows EXCEPT ![data.id] =
                             DbUpdatedRow(@, data, encryptionKey, iv)]
              IN  /\ dbRows' = rows
                  /\ touched' = touched \cup Supplying(dbRows[data.id].uid, data)
                  /\ last' = Call("updateNote", data,
                                  DbFind(rows, data.id, encryptionKey))
  /\ ops' = ops + 1
  /\ UNCHANGED <<backend, appVars, clock, simpleVars, fsVars, dbFolders, dbTags, dbSeq,
                 encryptionKey, births>>

DbDeleteNote(id) ==
  /\ backend = "db"
  /\ ops < MaxOps
  /\ IF id \in DOMAIN dbRows
       THEN /\ dbRows' = DeleteFile(dbRows, id)
            /\ touched' = touched \cup {<<dbRows[id].uid, "deleted">>}
            /\ last' = Call("deleteNote", id, TRUE)
       ELSE /\ last' = Call("deleteNote", id, FALSE)
            /\ UNCHANGED <<dbRows, touched>>
  /\ ops' = ops + 1
  /\ UNCHANGED <<backend, appVars, clock, simpleVars, fsVars, dbFolders, dbTags, dbSeq,
                 encryptionKey, births>>

\* ----------------------------------------------------------------- getTags
\* notes.flatMap(note => note.tags)
RECURSIVE FlatTags(_)
FlatTags(notes) ==
  IF notes = <<>> THEN <<>> ELSE Head(notes).tags \o FlatTags(Tail(notes))

\* [...new Set(allTags)]: the first occurrence of each name, in order
RECURSIVE UniqueTags(_)
UniqueTags(allTags) ==
  IF allTags = <<>> THEN <<>>
  ELSE LET front == UniqueTags(SubSeq(allTags, 1, Len(allTags) - 1))
           tag == allTags[Len(allTags)]
       IN  IF HasTag(front, tag) THEN front ELSE Append(front, tag)

\* tagCounts[tag] of the reduce: the occurrences of tag in allTags
TagCount(allTags, tag) == Cardinality({i \in DOMAIN allTags : allTags[i] = tag})

\* the comparator of SimpleDatabaseService.getTags
CompareTags(a, b) ==
  IF a.usageCount # b.usageCount
    THEN b.usageCount - a.usageCount
    ELSE a.created_at - b.created_at

RECURSIVE InsertTag(_, _)
InsertTag(x, s) ==
  IF s = <<>> THEN <<x>>
  ELSE IF CompareTags(x, Head(s)) < 0 THEN <<x>> \o s
  ELSE <<Head(s)>> \o InsertTag(x, Tail(s))

RECURSIVE SortTags(_)
SortTags(s) ==
  IF s = <<>> THEN <<>>
  ELSE InsertTag(s[Len(s)], SortTags(SubSeq(s, 1, Len(s) - 1)))

\* SimpleDatabaseService.getTags: every entry is stamped new Date() by the call
SimpleTags(notes) ==
  LET allTags == FlatTags(notes)
      uniqueTags == UniqueTags(allTags)
  IN  SortTags([index \in DOMAIN uniqueTags |->
                  [id |-> index,
                   name |-> uniqueTags[index],
                   created_at |-> Now,
                   usageCount |-> TagCount(allTags, uniqueTags[index])]])

SimpleGetTags ==
  /\ backend = "simple"
  /\ last' = Call("getTags", Null, SimpleTags(getNotesFromStorage(simple)))
  /\ UNCHANGED <<backend, appVars, clock, ops, simpleVars, fsVars, dbVars,
                 births, touched>>

\* FileSystemService.getTags: the names of getNotes(), neither counted nor sorted
FsTags ==
  LET notes == FilterAndSort(FsListFrom(DOMAIN fsMeta), NoFilters)
      uniqueTags == UniqueTags(FlatTags(notes))
  IN  [index \in DOMAIN uniqueTags |->
         [id |-> index, name |-> uniqueTags[index], created_at |-> Now]]

FsGetTags ==
  /\ backend = "fs"
  /\ last' = Call("getTags", Null, FsTags)
  /\ UNCHANGED <<backend, appVars, clock, ops, simpleVars, fsVars, dbVars,
                 births, touched>>

\* the place of a name in ORDER BY name (BINARY collation)
NameRank(name) ==
  CASE name = "A" -> 1
    [] name = "a" -> 2
    [] name = "b" -> 3
    [] OTHER -> 4

\* SELECT * FROM tags ORDER BY name (name is UNIQUE)
RECURSIVE DbTagsFrom(_)
DbTagsFrom(ids) ==
  IF ids = {} THEN <<>>
  ELSE LET first == CHOOSE i \in ids :
                      \A j \in ids : NameRank(dbTags[i].name) <= NameRank(dbTags[j].name)
       IN  <<dbTags[first]>> \o DbTagsFrom(ids \ {first})

DbGetTags ==
  /\ backend = "db"
  /\ last' = Call("getTags", Null, DbTagsFrom(DOMAIN dbTags))
  /\ UNCHANGED <<backend, appVars, clock, ops, simpleVars, fsVars, dbVars,
                 births, touched>>

\* DatabaseService.createTag: the existing row of that name, or a new row
DbCreateTag(name) ==
  /\ backend = "db"
  /\ IF \E id \in DOMAIN dbTags : dbTags[id].name = name
       THEN /\ last' = Call("createTag", name,
                            dbTags[CHOOSE id \in DOMAIN dbTags : dbTags[id].name = name])
            /\ UNCHANGED dbTags
       ELSE LET row == [id |-> Len(dbTags) + 1, name |-> name,
                        created_at |-> CurrentTimestamp]
            IN  /\ dbTags' = WriteFile(dbTags, row.id, row)
                /\ last' = Call("createTag", name, row)
  /\ UNCHANGED <<backend, appVars, clock, ops, simpleVars, fsVars, dbRows,
                 dbFolders, dbSeq, encryptionKey, births, touched>>

\* --------------------------------------------------------------------- App
\* handleFolderDelete: the folder leaves the list the App shows; no store
\* method is called
HandleFolderDelete(id) ==
  /\ backend = "simple"
  /\ availableFolders' = availableFolders \ {id}
  /\ last' = Call("handleFolderDelete", id, Null)
  /\ UNCHANGED <<backend, editor, inflight, fsFolders, clock, ops, simpleVars, fsVars,
                 dbVars, births, touched>>

\* ------------------------------------------------------------------- clock
\* time passes between two calls
Tick ==
  /\ clock < MaxClock
  /\ clock' = clock + 1
  /\ last' = Call("idle", Null, Null)
  /\ UNCHANGED <<backend, appVars, ops, simpleVars, fsVars, dbVars, births, touched>>

\* ------------------------------------------- the two stores, call for call
\* Every call is made on a SimpleDatabaseService and on a FileSystemService
\* (awaited); both results are kept, as [simple |-> .., fs |-> ..].
Both(a, b) == [simple |-> a, fs |-> b]

PairCreateNote(data) ==
  /\ backend = "pair"
  /\ ops < MaxOps
  /\ LET newNote == NewNote(data)
     IN  /\ simple' = <<newNote>> \o getNotesFromStorage(simple)
         /\ fsDocs' = WriteFile(fsDocs, generateFileName(newNote.title, "md"),
                                createMarkdownContent(newNote))
         /\ fsMeta' = WriteFile(fsMeta, newNote.id, newNote)
         /\ births' = Append(births, Born(newNote, data.content, Undefined))
         /\ last' = Call("createNote", data, Both(newNote, newNote))
  /\ ops' = ops + 1
  /\ UNCHANGED <<backend, appVars, clock, dbVars, touched>>

PairGetNoteById(id) ==
  /\ backend = "pair"
  /\ last' = Call("getNoteById", id, Both(SimpleFind(id), FsFind(id)))
  /\ UNCHANGED <<backend, appVars, clock, ops, simpleVars, fsVars, dbVars, births, touched>>

PairGetNotes(filters) ==
  /\ backend = "pair"
  /\ last' = Call("getNotes", filters,
                  Both(FilterAndSort(getNotesFromStorage(simple), filters),
                       FilterAndSort(FsListFrom(DOMAIN fsMeta), filters)))
  /\ UNCHANGED <<backend, appVars, clock, ops, simpleVars, fsVars, dbVars, births, touched>>

PairUpdateNote(data) ==
  /\ backend = "pair"
  /\ ops < MaxOps
  /\ LET notes == getNotesFromStorage(simple)
         noteIndex == FindIndex(notes, data.id)
         existingNote == FsFind(data.id)
         updatedNote == IF noteIndex = 0 THEN Null ELSE UpdatedNote(notes[noteIndex], data)
         fsUpdatedNote == IF existingNote = Null THEN Null
                          ELSE UpdatedNote(existingNote, data)
         fsThrows == fsUpdatedNote # Null /\ fsUpdatedNote.title = Undefined
     IN  /\ simple' = IF noteIndex = 0 THEN simple
                      ELSE [notes EXCEPT ![noteIndex] = updatedNote]
         /\ IF fsUpdatedNote = Null \/ fsThrows
              THEN UNCHANGED <<fsMeta, fsDocs>>
              ELSE /\ fsDocs' = WriteFile(fsDocs,
                                          generateFileName(fsUpdatedNote.title, "md"),
                                          createMarkdownContent(fsUpdatedNote))
                   /\ fsMeta' = WriteFile(fsMeta, fsUpdatedNote.id, fsUpdatedNote)
         /\ touched' = touched
              \cup (IF noteIndex = 0 THEN {} ELSE Supplying(notes[noteIndex].uid, data))
              \cup (IF fsUpdatedNote = Null \/ fsThrows THEN {}
                    ELSE Supplying(existingNote.uid, data))
         /\ last' = [Call("updateNote", data, Both(updatedNote, fsUpdatedNote))
                       EXCEPT !.threw = fsThrows]
  /\ ops' = ops + 1
  /\ UNCHANGED <<backend, appVars, clock, dbVars, births>>

PairDeleteNote(id) ==
  /\ backend = "pair"
  /\ ops < MaxOps
  /\ LET notes == getNotesFromStorage(simple)
         filteredNotes == SimpleWithout(notes, id)
         note == FsFind(id)
     IN  /\ simple' = IF Len(filteredNotes) = Len(notes) THEN simple ELSE filteredNotes
         /\ IF note = Null
              THEN UNCHANGED <<fsMeta, fsDocs>>
              ELSE /\ fsDocs' = DeleteFile(fsDocs, generateFileName(note.title, "md"))
                   /\ fsMeta' = DeleteFile(fsMeta, id)
         /\ touched' = touched
              \cup {<<notes[i].uid, "deleted">> :
                      i \in {j \in DOMAIN notes : notes[j].id = id}}
              \cup (IF note = Null THEN {} ELSE {<<note.uid, "deleted">>})
         /\ last' = Call("deleteNote", id,
                         Both(Len(filteredNotes) # Len(notes), note # Null))
  /\ ops' = ops + 1
  /\ UNCHANGED <<backend, appVars, clock, dbVars, births>>

PairGetTags ==
  /\ backend = "pair"
  /\ last' = Call("getTags", Null, Both(SimpleTags(getNotesFromStorage(simple)), FsTags))
  /\ UNCHANGED <<backend, appVars, clock, ops, simpleVars, fsVars, dbVars, births, touched>>

\* ------------------------------------------------- App and SimpleRichEditor
\* the editor after a render with the note prop n: the [note] effect has set
\* title and content from n, and the auto-save effect, whose dependencies
\* changed, has cleared its timer and set a new one when isEditing
Showing(n, isEditing) ==
  [mounted |-> TRUE, note |-> n, title |-> n.title, content |-> n.content,
   isEditing |-> isEditing, timer |-> isEditing]

IsEditing == editor.mounted /\ editor.isEditing

\* App.handleNoteSelect(note): setSelectedNote(note), for a note of the list
\* other than the selected one
HandleNoteSelect(n) ==
  /\ backend = "simple"
  /\ \E i \in DOMAIN simple : simple[i] = n
  /\ editor.mounted => editor.note.uid # n.uid
  /\ editor' = Showing(n, IsEditing)
  /\ last' = Call("handleNoteSelect", n.id, Null)
  /\ UNCHANGED <<backend, availableFolders, inflight, fsFolders, clock, ops, simpleVars,
                 fsVars, dbVars, births, touched>>

UntitledData == [title |-> "Untitled Note", content |-> "", tags |-> <<>>, pinned |-> FALSE]

\* App.createNewNote: createNote, then setSelectedNote(newNote)
CreateNewNote ==
  /\ backend = "simple"
  /\ ops < MaxOps
  /\ LET newNote == NewNote(UntitledData)
     IN  /\ simple' = <<newNote>> \o getNotesFromStorage(simple)
         /\ births' = Append(births, Born(newNote, UntitledData.content, Undefined))
         /\ editor' = Showing(newNote, IsEditing)
         /\ last' = Call("createNewNote", Null, newNote)
  /\ ops' = ops + 1
  /\ UNCHANGED <<backend, availableFolders, inflight, fsFolders, clock, fsVars, dbVars,
                 touched>>

\* handleTitleChange: setTitle(value), setIsEditing(true); the auto-save
\* effect runs again and restarts the 1 s timer
HandleTitleChange(value) ==
  /\ backend = "simple"
  /\ editor.mounted
  /\ value # editor.title
  /\ editor' = [editor EXCEPT !.title = value, !.isEditing = TRUE, !.timer = TRUE]
  /\ last' = Call("handleTitleChange", value, Null)
  /\ UNCHANGED <<backend, availableFolders, inflight, fsFolders, clock, ops, simpleVars,
                 fsVars, dbVars, births, touched>>

HandleContentChange(value) ==
  /\ backend = "simple"
  /\ editor.mounted
  /\ value # editor.content
  /\ editor' = [editor EXCEPT !.content = value, !.isEditing = TRUE, !.timer = TRUE]
  /\ last' = Call("handleContentChange", value, Null)
  /\ UNCHANGED <<backend, availableFolders, inflight, fsFolders, clock, ops, simpleVars,
                 fsVars, dbVars, births, touched>>

\* the auto-save timer fires: when title or content differs from the note
\* prop, onUpdate = App.handleNoteUpdate calls updateNote and selects the
\* saved note, and setIsEditing(false)
AutoSave ==
  /\ backend = "simple"
  /\ editor.mounted
  /\ editor.timer
  /\ LET note == editor.note
         data == [id |-> note.id, title |-> editor.title, content |-> editor.content,
                  tags |-> note.tags, pinned |-> note.pinned]
         notes == getNotesFromStorage(simple)
         noteIndex == FindIndex(notes, data.id)
     IN  IF editor.title = note.title /\ editor.content = note.content
           THEN /\ editor' = [editor EXCEPT !.timer = FALSE]
                /\ last' = Call("autoSave", Null, Null)
                /\ UNCHANGED <<simple, touched>>
           ELSE IF noteIndex = 0
             THEN /\ editor' = [editor EXCEPT !.isEditing = FALSE, !.timer = FALSE]
                  /\ last' = Call("updateNote", data, Null)
                  /\ UNCHANGED <<simple, touched>>
             ELSE LET savedNote == UpdatedNote(notes[noteIndex], data)
                  IN  /\ simple' = [notes EXCEPT ![noteIndex] = savedNote]
                      /\ touched' = touched \cup Supplying(notes[noteIndex].uid, data)
                      /\ editor' = Showing(savedNote, FALSE)
                      /\ last' = Call("updateNote", data, savedNote)
  /\ UNCHANGED <<backend, availableFolders, inflight, fsFolders, clock, ops, fsVars,
                 dbVars, births>>

\* ------------------------------------- FileSystemService.updateNote, by await
\* A call runs to its first await when it is made: getNoteById has read the
\* metadata file by then.  The continuations run from the microtask queue,
\* one at a time, each up to the next await.  A call in flight is
\* [data, existingNote, pc, over]; over (history) holds the arguments of the
\* calls it was in flight together with.
FsUpdateNoteStart(data) ==
  /\ backend = "fs"
  /\ ops < MaxOps
  /\ inflight' = Append([i \in DOMAIN inflight |->
                           [inflight[i] EXCEPT !.over = @ \cup {data}]],
                        [data |-> data, existingNote |-> FsFind(data.id), pc |-> "read",
                         over |-> {inflight[i].data : i \in DOMAIN inflight}])
  /\ last' = Call("updateNote:called", data, Null)
  /\ ops' = ops + 1
  /\ UNCHANGED <<backend, availableFolders, editor, fsFolders, clock, simpleVars, fsVars,
                 dbVars, births, touched>>

\* after await getNoteById: return null, or build updatedNote and write the
\* document file
FsUpdateNoteMerge ==
  /\ backend = "fs"
  /\ inflight # <<>>
  /\ Head(inflight).pc = "read"
  /\ LET call == Head(inflight)
     IN  IF call.existingNote = Null
           THEN /\ inflight' = Tail(inflight)
                /\ last' = Call("updateNote", call.data, Null)
                /\ UNCHANGED fsDocs
           ELSE LET updatedNote == UpdatedNote(call.existingNote, call.data)
                IN  /\ fsDocs' = WriteFile(fsDocs,
                                           generateFileName(updatedNote.title, "md"),
                                           createMarkdownContent(updatedNote))
                    /\ inflight' = Append(Tail(inflight),
                                          [call EXCEPT !.pc = "meta",
                                                       !.existingNote = updatedNote])
                    /\ last' = Call("updateNote:document", call.data, Null)
  /\ UNCHANGED <<backend, availableFolders, editor, fsFolders, clock, ops, simpleVars,
                 fsMeta, dbVars, births, touched>>

\* after await writeFile(filePath): write the metadata file and return
FsUpdateNoteStore ==
  /\ backend = "fs"
  /\ inflight # <<>>
  /\ Head(inflight).pc = "meta"
  /\ LET call == Head(inflight)
         updatedNote == call.existingNote
     IN  /\ fsMeta' = WriteFile(fsMeta, updatedNote.id, updatedNote)
         /\ touched' = touched \cup Supplying(updatedNote.uid, call.data)
         /\ last' = Call("updateNote", call.data, updatedNote)
  /\ inflight' = Tail(inflight)
  /\ UNCHANGED <<backend, availableFolders, editor, fsFolders, clock, ops, simpleVars,
                 fsDocs, dbVars, births>>

\* ------------------------------------------------------------------ folders
\* the one folder getFolders is written to return
General == [id |-> 1, name |-> "General"]

\* getFolders of SimpleDatabaseService and of FileSystemService
FolderList == <<General>>

\* Date.now() as a folder id: a reading is never the id 1 of 'General'
FolderStamp == clock + 1

NewFolder(name) == [id |-> FolderStamp, name |-> name]

\* getFolderById: folders.find over getFolders() in SimpleDatabaseService,
\* readFile of folders/<id>.json in FileSystemService
FolderById(files, id) ==
  IF backend = "simple"
    THEN IF \E i \in DOMAIN FolderList : FolderList[i].id = id
           THEN FolderList[CHOOSE i \in DOMAIN FolderList : FolderList[i].id = id]
           ELSE Null
    ELSE IF id \in DOMAIN files THEN files[id] ELSE Null

SimpleCreateFolder(name) ==
  /\ backend = "simple"
  /\ ops < MaxOps
  /\ last' = Call("createFolder", name, NewFolder(name))
  /\ ops' = ops + 1
  /\ UNCHANGED <<backend, appVars, clock, simpleVars, fsVars, dbVars, births, touched>>

SimpleGetFolders ==
  /\ backend = "simple"
  /\ last' = Call("getFolders", Null, FolderList)
  /\ UNCHANGED <<backend, appVars, clock, ops, simpleVars, fsVars, dbVars, births, touched>>

SimpleGetFolderById(id) ==
  /\ backend = "simple"
  /\ last' = Call("getFolderById", id, FolderById(fsFolders, id))
  /\ UNCHANGED <<backend, appVars, clock, ops, simpleVars, fsVars, dbVars, births, touched>>

FsCreateFolder(name) ==
  /\ backend = "fs"
  /\ ops < MaxOps
  /\ LET folder == NewFolder(name)
     IN  /\ fsFolders' = WriteFile(fsFolders, folder.id, folder)
         /\ last' = Call("createFolder", name, folder)
  /\ ops' = ops + 1
  /\ UNCHANGED <<backend, availableFolders, editor, inflight, clock, simpleVars, fsVars,
                 dbVars, births, touched>>

FsGetFolders ==
  /\ backend = "fs"
  /\ last' = Call("getFolders", Null, FolderList)
  /\ UNCHANGED <<backend, appVars, clock, ops, simpleVars, fsVars, dbVars, births, touched>>

FsGetFolderById(id) ==
  /\ backend = "fs"
  /\ last' = Call("getFolderById", id, FolderById(fsFolders, id))
  /\ UNCHANGED <<backend, appVars, clock, ops, simpleVars, fsVars, dbVars, births, touched>>

\* ---------------------------------------------- EncryptionService, directly
\* EncryptionService.encrypt(text, key) with iv drawn by randomBytes: no
\* call inside the try throws on strings, so the catch is never entered
Encrypt(text, key, iv) ==
  /\ backend = "codec"
  /\ last' = Call("encrypt", [text |-> text, key |-> key], encrypt(text, key, iv))
  /\ UNCHANGED <<backend, appVars, clock, ops, simpleVars, fsVars, dbVars, births, touched>>

\* EncryptionService.decrypt(encryptedText, key)
Decrypt(encryptedText, key) ==
  /\ backend = "codec"
  /\ LET arg == [encryptedText |-> encryptedText, key |-> key]
         r == decrypt(encryptedText, key)
     IN  last' = IF r.ok THEN Call("decrypt", arg, r.text) ELSE Throw("decrypt", arg)
  /\ UNCHANGED <<backend, appVars, clock, ops, simpleVars, fsVars, dbVars, births, touched>>

\* ------------------------------------------------------------------ faults
\* the stored text of one record (uid) is damaged outside the program: in
\* the 'scribe-notes' string, in a notes/<id>.meta.json file, or in the
\* tags column of a row. At most one record is damaged.
Damage(uid) ==
  /\ \A n \in {simple[i] : i \in DOMAIN simple} \cup {fsMeta[i] : i \in DOMAIN fsMeta}
              \cup {dbRows[i] : i \in DOMAIN dbRows} : ~IsMalformed(n)
  /\ CASE backend = "simple" ->
            /\ \E i \in DOMAIN simple : simple[i].uid = uid
            /\ simple' = [i \in DOMAIN simple |->
                            IF simple[i].uid = uid THEN Damaged(simple[i]) ELSE simple[i]]
            /\ UNCHANGED <<fsMeta, dbRows>>
       [] backend = "fs" ->
            /\ \E i \in DOMAIN fsMeta : fsMeta[i].uid = uid
            /\ fsMeta' = [i \in DOMAIN fsMeta |->
                            IF fsMeta[i].uid = uid THEN Damaged(fsMeta[i]) ELSE fsMeta[i]]
            /\ UNCHANGED <<simple, dbRows>>
       [] OTHER ->
            /\ \E i \in DOMAIN dbRows : dbRows[i].uid = uid
            /\ dbRows' = [i \in DOMAIN dbRows |->
                            IF dbRows[i].uid = uid THEN Damaged(dbRows[i]) ELSE dbRows[i]]
            /\ UNCHANGED <<simple, fsMeta>>
  /\ last' = Call("damage", uid, Null)
  /\ UNCHANGED <<backend, appVars, clock, ops, fsDocs, dbFolders, dbTags, dbSeq,
                 encryptionKey, births, touched>>

\* new SimpleDatabaseService() over the storage an earlier instance left:
\* the welcome note is created when getNotes() is empty
SimpleConstruct ==
  /\ backend = "simple"
  /\ IF Len(FilterAndSort(getNotesFromStorage(simple), NoFilters)) = 0
       THEN LET newNote == NewNote(WelcomeData)
            IN  /\ simple' = <<newNote>> \o getNotesFromStorage(simple)
                /\ births' = Append(births, Born(newNote, WelcomeData.content, Undefined))
       ELSE UNCHANGED <<simple, births>>
  /\ last' = Call("new", Null, Null)
  /\ UNCHANGED <<backend, appVars, clock, ops, fsVars, dbVars, touched>>

\* --------------------------------------------------------------- behaviours
NoCall == Call("new", Null, Null)

\* the welcome note the constructors create in an empty store, at clock 1
WelcomeNote(data) ==
  [id |-> 1, title |-> data.title, content |-> data.content, tags |-> data.tags,
   pinned |-> data.pinned, created_at |-> 1, updated_at |-> 1,
   folder_id |-> NoFolder, encrypted |-> FALSE, uid |-> 1]

Init ==
  /\ backend \in {"simple", "fs", "db"}
  /\ clock = 1
  /\ ops = 0
  /\ simple = IF backend = "simple" THEN <<WelcomeNote(WelcomeData)>> ELSE <<>>
  /\ fsMeta = IF backend = "fs" THEN <<WelcomeNote(FsWelcomeData)>> ELSE <<>>
  /\ fsDocs = IF backend = "fs"
                THEN WriteFile(<<>>, generateFileName(FsWelcomeData.title, "md"),
                               createMarkdownContent(WelcomeNote(FsWelcomeData)))
                ELSE <<>>
  /\ dbRows = <<>>
  /\ dbFolders = {1}
  /\ dbTags = <<>>
  /\ dbSeq = 0
  /\ encryptionKey = Undefined
  /\ availableFolders = {1}
  /\ editor = NoEditor
  /\ inflight = <<>>
  /\ fsFolders = <<>>
  /\ births = CASE backend = "simple" ->
                     <<Born(WelcomeNote(WelcomeData), WelcomeData.content, Undefined)>>
                [] backend = "fs" ->
                     <<Born(WelcomeNote(FsWelcomeData), FsWelcomeData.content, Undefined)>>
                [] OTHER -> <<>>
  /\ touched = {}
  /\ last = NoCall

NoteIds == 1..MaxClock

Next ==
  \/ Tick
  \/ \E data \in CreateInputs : SimpleCreateNote(data)
  \/ \E id \in NoteIds : SimpleGetNoteById(id)
  \/ \E filters \in Filters : SimpleGetNotes(filters)
  \/ \E id \in NoteIds : \E data \in UpdateInputs(id) : SimpleUpdateNote(data)
  \/ \E id \in NoteIds : SimpleDeleteNote(id)
  \/ \E data \in CreateInputs : FsCreateNote(data)
  \/ \E id \in NoteIds : FsGetNoteById(id)
  \/ \E filters \in Filters : FsGetNotes(filters)
  \/ \E id \in NoteIds : \E data \in UpdateInputs(id) : FsUpdateNote(data)
  \/ \E id \in NoteIds : FsDeleteNote(id)
  \/ \E key \in Keys : DbSetEncryptionKey(key)
  \/ DbReopen
  \/ \E data \in CreateInputs, iv \in IVs : DbCreateNote(data, iv)
  \/ \E id \in NoteIds : DbGetNoteById(id)
  \/ \E filters \in Filters : DbGetNotes(filters)
  \/ \E id \in NoteIds : \E data \in UpdateInputs(id), iv \in IVs : DbUpdateNote(data, iv)
  \/ \E id \in NoteIds : DbDeleteNote(id)

\* the listing behaviours: notes with tags, pins and folders are created,
\* retagged and deleted, and listed under every filter; the tag index is read
ListingNext ==
  \/ Tick
  \/ \E data \in TaggedInputs : SimpleCreateNote(data)
  \/ \E id \in NoteIds : SimpleGetNoteById(id)
  \/ \E filters \in ListingFilters : SimpleGetNotes(filters)
  \/ \E id \in NoteIds : \E data \in RetagInputs(id) : SimpleUpdateNote(data)
  \/ \E id \in NoteIds : SimpleDeleteNote(id)
  \/ SimpleGetTags
  \/ \E id \in FolderIds : HandleFolderDelete(id)
  \/ \E data \in TaggedInputs : FsCreateNote(data)
  \/ \E filters \in ListingFilters : FsGetNotes(filters)
  \/ \E id \in NoteIds : \E data \in RetagInputs(id) : FsUpdateNote(data)
  \/ \E id \in NoteIds : FsDeleteNote(id)
  \/ FsGetTags
  \/ DbSetEncryptionKey("k1")
  \/ \E data \in TaggedInputs, iv \in IVs : DbCreateNote(data, iv)
  \/ \E filters \in ListingFilters : DbGetNotes(filters)
  \/ \E id \in NoteIds : \E data \in RetagInputs(id), iv \in IVs : DbUpdateNote(data, iv)
  \/ \E id \in NoteIds : DbDeleteNote(id)
  \/ DbGetTags
  \/ \E name \in TagNames : DbCreateTag(name)

\* the behaviours under faults: a stored record is damaged, an update
\* carries a key without a value, the store is constructed again
FaultCreates == {[title |-> "t1", content |-> "secret"]}

ValuelessFields == {[title |-> Undefined], [content |-> Undefined]}

ValuelessInputs(id) == {Spread([id |-> id], f) : f \in ValuelessFields}

Uids == 1..(MaxOps + 1)

FaultNext ==
  \/ Tick
  \/ \E uid \in Uids : Damage(uid)
  \/ SimpleConstruct
  \/ \E data \in FaultCreates : SimpleCreateNote(data)
  \/ SimpleGetNotes(NoFilters)
  \/ \E id \in NoteIds : \E data \in ValuelessInputs(id) : SimpleUpdateNote(data)
  \/ \E id \in NoteIds : SimpleDeleteNote(id)
  \/ \E data \in FaultCreates : FsCreateNote(data)
  \/ FsGetNotes(NoFilters)
  \/ \E id \in NoteIds : \E data \in ValuelessInputs(id) : FsUpdateNote(data)
  \/ \E data \in FaultCreates, iv \in IVs : DbCreateNote(data, iv)
  \/ DbGetNotes(NoFilters)
  \/ \E id \in NoteIds : \E data \in ValuelessInputs(id), iv \in IVs : DbUpdateNote(data, iv)

\* both stores constructed over empty storage, each with its welcome note,
\* and then given the same calls
PairInit ==
  /\ backend = "pair"
  /\ clock = 1
  /\ ops = 0
  /\ simple = <<WelcomeNote(WelcomeData)>>
  /\ fsMeta = <<WelcomeNote(FsWelcomeData)>>
  /\ fsDocs = WriteFile(<<>>, generateFileName(FsWelcomeData.title, "md"),
                        createMarkdownContent(WelcomeNote(FsWelcomeData)))
  /\ dbRows = <<>>
  /\ dbFolders = {1}
  /\ dbTags = <<>>
  /\ dbSeq = 0
  /\ encryptionKey = Undefined
  /\ availableFolders = {1}
  /\ editor = NoEditor
  /\ inflight = <<>>
  /\ fsFolders = <<>>
  /\ births = <<Born(WelcomeNote(WelcomeData), WelcomeData.content, Undefined)>>
  /\ touched = {}
  /\ last = NoCall

PairCreates ==
  {[title |-> "t1", content |-> "secret", tags |-> <<"a">>],
   [title |-> "t2", content |-> "memo", tags |-> <<"a">>, pinned |-> TRUE]}

PairFields == {[pinned |-> TRUE], [title |-> "t2"], [tags |-> <<"a", "b">>]}

PairInputs(id) == {Spread([id |-> id], f) : f \in PairFields}

PairNext ==
  \/ Tick
  \/ \E data \in PairCreates : PairCreateNote(data)
  \/ \E id \in NoteIds : PairGetNoteById(id)
  \/ \E filters \in Filters : PairGetNotes(filters)
  \/ \E id \in NoteIds : \E data \in PairInputs(id) : PairUpdateNote(data)
  \/ \E id \in NoteIds : PairDeleteNote(id)
  \/ PairGetTags

\* the App over SimpleDatabaseService: notes are selected and created, the
\* editor's title and content fields are typed into, the timer fires
EditorInit == Init /\ backend = "simple"

TypedTitles == {"t1", "t2"}

TypedContents == {"memo"}

NotesOf(ids) ==
  {n \in {simple[i] : i \in DOMAIN simple} : n.id \in ids}

EditorNext ==
  \/ Tick
  \/ \E n \in NotesOf(NoteIds) : HandleNoteSelect(n)
  \/ CreateNewNote
  \/ \E value \in TypedTitles : HandleTitleChange(value)
  \/ \E value \in TypedContents : HandleContentChange(value)
  \/ AutoSave

\* FileSystemService.updateNote calls made without awaiting the one before
AsyncInit == Init /\ backend = "fs"

AsyncFields == {[pinned |-> TRUE], [tags |-> <<"a", "b">>], [content |-> "memo"],
                [title |-> "t2"]}

AsyncInputs(id) == {Spread([id |-> id], f) : f \in AsyncFields}

AsyncNext ==
  \/ Tick
  \/ \E data \in FaultCreates : FsCreateNote(data)
  \/ \E id \in NoteIds : FsGetNoteById(id)
  \/ \E id \in NoteIds : \E data \in AsyncInputs(id) : FsUpdateNoteStart(data)
  \/ FsUpdateNoteMerge
  \/ FsUpdateNoteStore

\* the folder methods of the two stores that keep folders outside a table
FolderInit == Init /\ backend \in {"simple", "fs"}

FolderNames == {"work", "home"}

FolderKeys == 1..(MaxClock + 1)

FolderNext ==
  \/ Tick
  \/ \E name \in FolderNames : SimpleCreateFolder(name)
  \/ SimpleGetFolders
  \/ \E id \in FolderKeys : SimpleGetFolderById(id)
  \/ \E name \in FolderNames : FsCreateFolder(name)
  \/ FsGetFolders
  \/ \E id \in FolderKeys : FsGetFolderById(id)

\* the static methods of EncryptionService called directly
CodecInit ==
  /\ backend = "codec"
  /\ clock = 1
  /\ ops = 0
  /\ simple = <<>>
  /\ fsMeta = <<>>
  /\ fsDocs = <<>>
  /\ dbRows = <<>>
  /\ dbFolders = {1}
  /\ dbTags = <<>>
  /\ dbSeq = 0
  /\ encryptionKey = Undefined
  /\ availableFolders = {1}
  /\ editor = NoEditor
  /\ inflight = <<>>
  /\ fsFolders = <<>>
  /\ births = <<>>
  /\ touched = {}
  /\ last = NoCall

CodecTexts ==
  Contents \cup {encrypt(t, k, iv) : t \in Contents, k \in CodecKeys, iv \in CodecIVs}

CodecNext ==
  \/ \E text \in Contents, key \in CodecKeys, iv \in CodecIVs : Encrypt(text, key, iv)
  \/ \E encryptedText \in CodecTexts, key \in CodecKeys : Decrypt(encryptedText, key)

\* the persisted records of the constructed store
StoredNotes ==
  CASE backend = "simple" -> {simple[i] : i \in DOMAIN simple}
    [] backend = "fs" -> {fsMeta[id] : id \in DOMAIN fsMeta}
    [] OTHER -> {dbRows[id] : id \in DOMAIN dbRows}

StoredIds ==
  CASE backend = "simple" -> {simple[i].id : i \in DOMAIN simple}
    [] backend = "fs" -> DOMAIN fsMeta
    [] OTHER -> DOMAIN dbRows

\* the encrypted flag of a persisted record (a 0/1 column in the table)
FlaggedEncrypted(n) == IF backend = "db" THEN Boolean(n.encrypted) ELSE n.encrypted

\* what getNoteById(id) returns in the current state
Lookup(id) ==
  CASE backend = "simple" -> SimpleFind(id)
    [] backend = "fs" -> FsFind(id)
    [] OTHER -> DbFind(dbRows, id, encryptionKey)

\* the plaintext a persisted content stands for, and the key it was
\* encrypted with (Undefined when it is no ciphertext)
PlainOf(content) ==
  IF content \in CipherTexts
    THEN CHOOSE t \in Contents : \E k \in Keys, iv \in IVs : content = encrypt(t, k, iv)
    ELSE content

KeyOf(content) ==
  IF content \in CipherTexts
    THEN CHOOSE k \in Keys : \E t \in Contents, iv \in IVs : content = encrypt(t, k, iv)
    ELSE Undefined

\* the notes a read returned: the one of getNoteById, the list of getNotes
ReadNotes ==
  CASE last.op = "getNoteById" /\ last.res # Null -> {last.res}
    [] last.op = "getNotes" -> {last.res[i] : i \in DOMAIN last.res}
    [] OTHER -> {}

Untouched(uid) == \A t \in touched : t[1] # uid

\* ------------------------------------------------------------------ claims
\* C1: no stored note has encrypted = true while its persisted content is
\* the plaintext: every persisted note flagged encrypted holds a ciphertext
\* produced by the codec.
C1_EncryptedIsCiphertext ==
  \A n \in StoredNotes : FlaggedEncrypted(n) => n.content \in CipherTexts

\* C2: getNoteById and getNotes never return the persisted ciphertext: the
\* content returned for a note flagged encrypted is the original plaintext
\* or the sentinel placeholder, whatever the state of the encryption key.
C2_ReadsPlaintextOrSentinel ==
  \A n \in ReadNotes :
    n.encrypted =>
      \E r \in StoredNotes :
        r.uid = n.uid /\ n.content \in {PlainOf(r.content), Sentinel}

\* C3: a note created with encrypted = true while a key is set, and whose
\* content and encrypted flag no later updateNote supplied, is returned by
\* getNoteById under the same key with the plaintext passed to createNote.
C3_EncryptedRoundTrip ==
  (backend = "db" /\ last.op = "getNoteById" /\ last.res # Null) =>
    LET b == births[last.res.uid]
    IN  (/\ b.encrypted
         /\ KeySet(b.key)
         /\ encryptionKey = b.key
         /\ <<b.uid, "content">> \notin touched
         /\ <<b.uid, "encrypted">> \notin touched)
        => last.res.content = b.content

C3_Witness ==
  /\ backend = "db" /\ last.op = "getNoteById" /\ last.res # Null
  /\ births[last.res.uid].encrypted
  /\ KeySet(encryptionKey) /\ encryptionKey = births[last.res.uid].key
  /\ Untouched(last.res.uid)
  /\ dbRows[last.res.id].content \in CipherTexts
  /\ last.res.content = births[last.res.uid].content

\* C4: an encrypted note read under a key other than the one it was
\* encrypted with is returned, by getNoteById and by getNotes, with the
\* sentinel placeholder as content, and the read does not throw.
C4_WrongKeyGivesSentinel ==
  /\ last.op \in {"getNoteById", "getNotes"} => ~last.threw
  /\ \A n \in ReadNotes :
       \A r \in StoredNotes :
         (/\ backend = "db"
          /\ r.uid = n.uid
          /\ Boolean(r.encrypted)
          /\ r.content \in CipherTexts
          /\ KeySet(encryptionKey)
          /\ KeyOf(r.content) # encryptionKey)
         => n.content = Sentinel

\* C5: no two stored notes have the same id.
C5_UniqueIds ==
  /\ \A i, j \in DOMAIN simple : i # j => simple[i].id # simple[j].id
  /\ \A id \in DOMAIN fsMeta : fsMeta[id].id = id
  /\ \A id \in DOMAIN dbRows : dbRows[id].id = id

\* C6: getNoteById on the id createNote returned for a note created with
\* encrypted = false returns the content passed to createNote, as long as
\* no updateNote or deleteNote was applied to that note.
C6_PlainRoundTrip ==
  last.op = "getNoteById" =>
    \A u \in DOMAIN births :
      (births[u].id = last.arg /\ ~births[u].encrypted /\ Untouched(u))
      => (last.res # Null /\ last.res.content = births[u].content)


\* the fields of a Note a caller sees, updated_at apart
NoteFields ==
  {"id", "title", "content", "tags", "pinned", "folder_id", "encrypted", "created_at"}

\* the step is an updateNote call that found its note and returned it
UpdateReturned == last'.op = "updateNote" /\ last'.res # Null /\ ~last'.threw

\* C7: updateNote changes only the fields supplied in its argument: every
\* other field of the returned note has the value getNoteById returned for
\* it before the call.
C7_OnlySuppliedFieldsChange ==
  [][UpdateReturned =>
       \A k \in NoteFields \ DOMAIN last'.arg :
         last'.res[k] = Lookup(last'.arg.id)[k]]_vars

\* C8: every successful updateNote advances updated_at: the value after the
\* update is strictly later than the value before it.
C8_UpdatedAtAdvances ==
  [][UpdateReturned =>
       last'.res.updated_at > Lookup(last'.arg.id).updated_at]_vars

\* C9: every stored note has the id and the created_at createNote gave it,
\* after any sequence of updateNote calls.
C9_IdAndCreatedAtKept ==
  \A n \in StoredNotes :
    /\ n.id = births[n.uid].id
    /\ n.created_at = births[n.uid].created_at

C9_Witness ==
  \E n \in StoredNotes :
    /\ \E t \in touched : t[1] = n.uid /\ t[2] # "deleted"
    /\ n.updated_at > n.created_at
    /\ n.created_at = births[n.uid].created_at

\* the id a getNoteById, updateNote or deleteNote call was made with
CalledId(call) == IF call.op = "updateNote" THEN call.arg.id ELSE call.arg

\* the step is a call by id with an id that matches no stored note
MissedCall ==
  /\ last'.op \in {"getNoteById", "updateNote", "deleteNote"}
  /\ CalledId(last') \notin StoredIds

\* C10: for an id that matches no stored note getNoteById and updateNote
\* return null and deleteNote returns false, none of them throws, and the
\* stored notes are left unchanged.
C10_NotFoundIsNullAndHarmless ==
  [][MissedCall =>
       /\ ~last'.threw
       /\ IF last'.op = "deleteNote" THEN last'.res = FALSE ELSE last'.res = Null
       /\ UNCHANGED <<simple, fsMeta, fsDocs, dbRows>>]_vars

C10_Witness ==
  /\ last.op = "deleteNote" /\ last.res = FALSE /\ ~last.threw
  /\ last.arg \notin StoredIds
  /\ StoredNotes # {}

\* the tag names a persisted note carries, and its pin as a boolean
Carried(n) == {n.tags[i] : i \in DOMAIN n.tags}
IsPinned(n) == IF backend = "db" THEN Boolean(n.pinned) ELSE n.pinned

\* the notes a getNotes call returned, by identity
ReturnedUids == {last.res[i].uid : i \in DOMAIN last.res}

\* the persisted notes a predicate selects, by identity
UidsOf(notes) == {n.uid : n \in notes}

\* C11: deleteNote returns true exactly when a note with that id was
\* stored; after it returned true getNoteById(id) returns null, and no later
\* read returns a note with an id that deleteNote removed.
C11_HardDelete ==
  [][/\ \A id \in NoteIds :
          (last'.op = "deleteNote" /\ last'.arg = id) =>
            /\ last'.res = (id \in StoredIds)
            /\ last'.res => (id \notin StoredIds' /\ Lookup(id)' = Null)
     /\ \A n \in ReadNotes' :
          \A b \in {births'[u] : u \in DOMAIN births'} :
            <<b.uid, "deleted">> \in touched' => n.id # b.id]_vars

\* C12: getNotes under a filter made of tags and pinned returns exactly the
\* stored notes that carry at least one of the listed tags and, when pinned
\* is given, have that pin.
C12_TagsOrPinnedAnd ==
  (last.op = "getNotes" /\ DOMAIN last.arg \subseteq {"none", "tags", "pinned"}) =>
    ReturnedUids =
      UidsOf({n \in StoredNotes :
                /\ "tags" \in DOMAIN last.arg =>
                     \E i \in DOMAIN last.arg.tags : last.arg.tags[i] \in Carried(n)
                /\ "pinned" \in DOMAIN last.arg => IsPinned(n) = last.arg.pinned})

\* C13: getNotes under a query filter returns exactly the stored notes whose
\* title or plaintext content contains the query, compared case-insensitively,
\* encrypted notes included.
C13_QueryMatchesPlaintext ==
  (last.op = "getNotes" /\ DOMAIN last.arg = {"query"}) =>
    ReturnedUids =
      UidsOf({n \in StoredNotes :
                \/ Includes(ToLowerCase(n.title), ToLowerCase(last.arg.query))
                \/ Includes(ToLowerCase(PlainOf(n.content)),
                            ToLowerCase(last.arg.query))})

\* C14: getNotes under a folder_id filter returns exactly the stored notes
\* whose folder_id is the given one.
C14_FolderFilter ==
  (last.op = "getNotes" /\ DOMAIN last.arg = {"folder_id"}) =>
    ReturnedUids = UidsOf({n \in StoredNotes : n.folder_id = last.arg.folder_id})

\* C15: in every list getNotes returns no unpinned note precedes a pinned
\* one, and among notes of the same pin none precedes one with a later
\* updated_at.
C15_PinnedFirstThenNewest ==
  last.op = "getNotes" =>
    \A i, j \in DOMAIN last.res :
      i < j =>
        /\ ~(~last.res[i].pinned /\ last.res[j].pinned)
        /\ last.res[i].pinned = last.res[j].pinned =>
             last.res[i].updated_at >= last.res[j].updated_at

C15_Witness ==
  /\ last.op = "getNotes"
  /\ Len(last.res) >= 3
  /\ last.res[1].pinned /\ last.res[2].pinned /\ ~last.res[3].pinned
  /\ last.res[1].updated_at > last.res[2].updated_at
  /\ last.res[3].updated_at > last.res[2].updated_at

\* C16: getTags returns one entry per distinct tag name, each with the
\* number of stored notes that carry the tag as its usage count, in
\* descending order of that count.
C16_TagCountsRanked ==
  last.op = "getTags" =>
    /\ \A i, j \in DOMAIN last.res : i # j => last.res[i].name # last.res[j].name
    /\ \A i \in DOMAIN last.res :
         /\ "usageCount" \in DOMAIN last.res[i]
         /\ last.res[i].usageCount =
              Cardinality({n \in StoredNotes : last.res[i].name \in Carried(n)})
    /\ \A i, j \in DOMAIN last.res :
         i < j => last.res[i].usageCount >= last.res[j].usageCount

\* the creation time of the earliest stored note that carries the tag
FirstSeen(tag) ==
  LET times == {n.created_at : n \in {m \in StoredNotes : tag \in Carried(m)}}
  IN  CHOOSE t \in times : \A u \in times : t <= u

\* C17: of two tags with the same usage count getTags lists first the one
\* whose earliest carrying note was created earlier.
C17_TiesByFirstSeen ==
  (backend = "simple" /\ last.op = "getTags") =>
    \A i, j \in DOMAIN last.res :
      (i < j /\ last.res[i].usageCount = last.res[j].usageCount) =>
        FirstSeen(last.res[i].name) <= FirstSeen(last.res[j].name)

\* C18: as long as only createNote, updateNote and deleteNote wrote to the
\* store, the names getTags returns are the names carried by the stored notes.
C18_TagsAreDerived ==
  (last.op = "getTags" /\ dbTags = <<>>) =>
    {last.res[i].name : i \in DOMAIN last.res} = UNION {Carried(n) : n \in StoredNotes}

\* C19: no stored note holds the same tag name twice.
C19_TagsAreASet ==
  \A n \in StoredNotes :
    \A i, j \in DOMAIN n.tags : i # j => n.tags[i] # n.tags[j]

\* the persisted note n as it is after a folder it may reference is gone:
\* the same record, folder_id kept or cleared
SameButFolder(m, n) ==
  /\ m.folder_id \in {NoFolder, n.folder_id}
  /\ [m EXCEPT !.folder_id = n.folder_id] = n

\* C20: deleting a folder leaves every note that references it stored, with
\* its folder_id kept or cleared, and getNoteById on a note whose folder is
\* gone returns the note and does not throw.
C20_FolderDeleteKeepsNotes ==
  [][/\ last'.op = "handleFolderDelete" =>
          \A n \in StoredNotes :
            n.folder_id = last'.arg =>
              /\ \E m \in StoredNotes' : SameButFolder(m, n)
              /\ Lookup(n.id)' # Null
              /\ Lookup(n.id) # Null => SameButFolder(Lookup(n.id)', Lookup(n.id))
     /\ (/\ last'.op = "getNoteById"
         /\ \E n \in StoredNotes :
              n.id = last'.arg /\ n.folder_id \notin availableFolders \cup {NoFolder})
        => (~last'.threw /\ last'.res # Null /\ last'.res.id = last'.arg)]_vars

C20_Witness ==
  /\ backend = "simple"
  /\ last.op = "getNoteById" /\ last.res # Null /\ ~last.threw
  /\ last.res.folder_id \in FolderIds
  /\ last.res.folder_id \notin availableFolders

\* C26: updateNote that supplies a new content, and no encrypted flag, for a
\* note stored encrypted under the key that is set leaves the persisted
\* content a ciphertext, and getNoteById returns the new content.
C26_EncryptedUpdateRoundTrip ==
  [][\A id \in NoteIds :
       (/\ backend = "db"
        /\ last'.op = "updateNote" /\ ~last'.threw /\ last'.res # Null
        /\ last'.arg.id = id
        /\ "content" \in DOMAIN last'.arg /\ "encrypted" \notin DOMAIN last'.arg
        /\ id \in DOMAIN dbRows
        /\ Boolean(dbRows[id].encrypted)
        /\ KeySet(encryptionKey)
        /\ dbRows[id].content \in CipherTexts
        /\ KeyOf(dbRows[id].content) = encryptionKey)
       => /\ Lookup(id)'.content = last'.arg.content
          /\ dbRows'[id].content \in CipherTexts]_vars

\* C29: createNote adds exactly one stored note and leaves every note that
\* was stored as it was; updateNote(id) and deleteNote(id) leave every stored
\* note with another id as it was.
C29_MutationsAreLocal ==
  [][/\ (last'.op = "createNote" /\ ~last'.threw) =>
          /\ StoredNotes \subseteq StoredNotes'
          /\ Cardinality(StoredNotes') = Cardinality(StoredNotes) + 1
     /\ \A id \in NoteIds :
          (last'.op \in {"updateNote", "deleteNote"} /\ CalledId(last') = id) =>
            {n \in StoredNotes : n.id # id} = {n \in StoredNotes' : n.id # id}]_vars

\* the stored records that still parse
Parsing == {n \in StoredNotes : ~IsMalformed(n)}

\* C21: with exactly one malformed stored record, getNotes still returns
\* every other stored note (it does not throw and does not come back empty
\* of them).
C21_ListingSurvivesOneBadRecord ==
  (/\ last.op = "getNotes"
   /\ Cardinality(StoredNotes \ Parsing) = 1)
  => /\ ~last.threw
     /\ UidsOf(Parsing) \subseteq ReturnedUids

\* C22: every stored note has a title and a content, also after an
\* updateNote whose argument carries a title or content key with no value.
C22_TitleAndContentStay ==
  \A n \in Parsing : n.title # Undefined /\ n.content # Undefined

\* C30: constructing SimpleDatabaseService over a storage that holds data
\* leaves the stored data as it is: the welcome note is written only into a
\* storage that holds nothing.
C30_ConstructKeepsStorage ==
  [][(backend = "simple" /\ last'.op = "new" /\ simple # <<>>)
       => simple' = simple]_vars

FaultSpec == Init /\ [][FaultNext]_vars

\* C24: EncryptionService.encrypt called with an empty key fails with an
\* error and returns no ciphertext.
C24_EmptyKeyRejected ==
  (last.op = "encrypt" /\ last.arg.key = "") => (last.threw /\ last.res = Null)

CodecSpec == CodecInit /\ [][CodecNext]_vars

\* C28: the folder createFolder returns is stored: getFolderById of its id
\* returns it and getFolders lists it; and every folder getFolders lists is
\* found by getFolderById.
C28_CreatedFolderIsStored ==
  [][/\ last'.op = "createFolder" =>
          /\ FolderById(fsFolders', last'.res.id) = last'.res
          /\ \E i \in DOMAIN FolderList : FolderList[i] = last'.res
     /\ last'.op = "getFolders" =>
          \A i \in DOMAIN last'.res :
            FolderById(fsFolders', last'.res[i].id) = last'.res[i]]_vars

FolderSpec == FolderInit /\ [][FolderNext]_vars

\* the two arguments name the same note and supply different fields
DifferentFields(d, e) == d.id = e.id /\ DOMAIN d \cap DOMAIN e = {"id"}

\* C27: when two updateNote calls of FileSystemService on the same note
\* with different fields were in flight together, the note stored once both
\* returned carries the fields of both.
C27_OverlappingUpdatesKeepBoth ==
  [][(/\ backend = "fs"
      /\ inflight # <<>> /\ inflight' = <<>>
      /\ Head(inflight).pc = "meta")
     => LET call == Head(inflight)
        IN  \A d \in {e \in call.over : DifferentFields(e, call.data)} \cup {call.data} :
              \A k \in DOMAIN d \ {"id"} : fsMeta'[d.id][k] = d[k]]_vars

AsyncSpec == AsyncInit /\ [][AsyncNext]_vars

\* the editor holds typed text that its note does not have
Unsaved ==
  /\ IsEditing
  /\ editor.title # editor.note.title \/ editor.content # editor.note.content

\* the stored note uid has this title and content
StoreHolds(notes, uid, title, content) ==
  \E i \in DOMAIN notes :
    notes[i].uid = uid /\ notes[i].title = title /\ notes[i].content = content

\* C25: an edit of title or content typed into the editor is not dropped:
\* while the editor holds unsaved text a timer that will save it is pending,
\* and a step other than further typing either stores the text in its note
\* or leaves the editor holding it, also when that step selects another
\* note before the timer has fired.
C25_EditsReachTheStore ==
  [][/\ Unsaved' => editor'.timer
     /\ Unsaved =>
          IF last'.op \in {"handleTitleChange", "handleContentChange"}
            THEN editor'.note.uid = editor.note.uid
            ELSE \/ StoreHolds(simple', editor.note.uid, editor.title, editor.content)
                 \/ editor' = editor]_vars

EditorSpec == EditorInit /\ [][EditorNext]_vars

\* a returned note with its id and timestamps left out (null stays null);
\* the text of the welcome note, which each constructor words in its own
\* way, is left out as well
Apart(n) ==
  IF n = Null THEN Null
  ELSE [title |-> n.title,
        content |-> IF n.uid = WelcomeNote(WelcomeData).uid THEN "" ELSE n.content,
        tags |-> n.tags, pinned |-> n.pinned, folder_id |-> n.folder_id,
        encrypted |-> n.encrypted]

\* no two notes were created in the same millisecond
DistinctStamps == Cardinality({births[i].id : i \in DOMAIN births}) = Len(births)

\* C23: SimpleDatabaseService and FileSystemService, given the same calls
\* from empty stores, return the same result at every call: the same note,
\* the same notes in the same order, the same boolean, the same tag names in
\* the same order (ids and timestamps apart, and so for notes created in
\* different milliseconds).
C23_StoresAgree ==
  (backend = "pair" /\ DistinctStamps) =>
    LET a == last.res.simple
        b == last.res.fs
    IN  CASE last.op \in {"createNote", "updateNote", "getNoteById"} ->
               ~last.threw /\ Apart(a) = Apart(b)
          [] last.op = "getNotes" ->
               /\ Len(a) = Len(b)
               /\ \A i \in DOMAIN a : Apart(a[i]) = Apart(b[i])
          [] last.op = "deleteNote" -> a = b
          [] last.op = "getTags" ->
               [i \in DOMAIN a |-> a[i].name] = [i \in DOMAIN b |-> b[i].name]
          [] OTHER -> TRUE

PairSpec == PairInit /\ [][PairNext]_vars

Spec == Init /\ [][Next]_vars

ListingSpec == Init /\ [][ListingNext]_vars
====
